---- MODULE Spec2Model ----
(***************************************************************************)
(* Model of src/app.py: the daily reminder pass (daily_reminder_handler),  *)
(* its two notification channels and the DynamoDB status table.            *)
(*                                                                         *)
(* Python strings are modelled as sequences of characters, so that         *)
(* replace, split, strip, int() and strptime are computed character by     *)
(* character, as the interpreter computes them. A printable ASCII          *)
(* character and \t, \n, \f, \r stand for themselves; every other          *)
(* character is written by its code point, as in "U+00A0".                 *)
(***************************************************************************)
EXTENDS Integers, Sequences, FiniteSets, TLC

(***************************************************************************)
(* Strings                                                                 *)
(***************************************************************************)
\* the decimal digits of the Unicode database (category Nd, Unicode 14.0):
\* each run holds the digits 0 to 9 of one script, in order. int() and the
\* \d of strptime's patterns accept every one of them.
DecimalDigits ==
    { <<"0", "1", "2", "3", "4", "5", "6", "7", "8", "9">>,
      <<"U+0660", "U+0661", "U+0662", "U+0663", "U+0664", "U+0665", "U+0666", "U+0667", "U+0668", "U+0669">>,
      <<"U+06F0", "U+06F1", "U+06F2", "U+06F3", "U+06F4", "U+06F5", "U+06F6", "U+06F7", "U+06F8", "U+06F9">>,
      <<"U+07C0", "U+07C1", "U+07C2", "U+07C3", "U+07C4", "U+07C5", "U+07C6", "U+07C7", "U+07C8", "U+07C9">>,
      <<"U+0966", "U+0967", "U+0968", "U+0969", "U+096A", "U+096B", "U+096C", "U+096D", "U+096E", "U+096F">>,
      <<"U+09E6", "U+09E7", "U+09E8", "U+09E9", "U+09EA", "U+09EB", "U+09EC", "U+09ED", "U+09EE", "U+09EF">>,
      <<"U+0A66", "U+0A67", "U+0A68", "U+0A69", "U+0A6A", "U+0A6B", "U+0A6C", "U+0A6D", "U+0A6E", "U+0A6F">>,
      <<"U+0AE6", "U+0AE7", "U+0AE8", "U+0AE9", "U+0AEA", "U+0AEB", "U+0AEC", "U+0AED", "U+0AEE", "U+0AEF">>,
      <<"U+0B66", "U+0B67", "U+0B68", "U+0B69", "U+0B6A", "U+0B6B", "U+0B6C", "U+0B6D", "U+0B6E", "U+0B6F">>,
      <<"U+0BE6", "U+0BE7", "U+0BE8", "U+0BE9", "U+0BEA", "U+0BEB", "U+0BEC", "U+0BED", "U+0BEE", "U+0BEF">>,
      <<"U+0C66", "U+0C67", "U+0C68", "U+0C69", "U+0C6A", "U+0C6B", "U+0C6C", "U+0C6D", "U+0C6E", "U+0C6F">>,
      <<"U+0CE6", "U+0CE7", "U+0CE8", "U+0CE9", "U+0CEA", "U+0CEB", "U+0CEC", "U+0CED", "U+0CEE", "U+0CEF">>,
      <<"U+0D66", "U+0D67", "U+0D68", "U+0D69", "U+0D6A", "U+0D6B", "U+0D6C", "U+0D6D", "U+0D6E", "U+0D6F">>,
      <<"U+0DE6", "U+0DE7", "U+0DE8", "U+0DE9", "U+0DEA", "U+0DEB", "U+0DEC", "U+0DED", "U+0DEE", "U+0DEF">>,
      <<"U+0E50", "U+0E51", "U+0E52", "U+0E53", "U+0E54", "U+0E55", "U+0E56", "U+0E57", "U+0E58", "U+0E59">>,
      <<"U+0ED0", "U+0ED1", "U+0ED2", "U+0ED3", "U+0ED4", "U+0ED5", "U+0ED6", "U+0ED7", "U+0ED8", "U+0ED9">>,
      <<"U+0F20", "U+0F21", "U+0F22", "U+0F23", "U+0F24", "U+0F25", "U+0F26", "U+0F27", "U+0F28", "U+0F29">>,
      <<"U+1040", "U+1041", "U+1042", "U+1043", "U+1044", "U+1045", "U+1046", "U+1047", "U+1048", "U+1049">>,
      <<"U+1090", "U+1091", "U+1092", "U+1093", "U+1094", "U+1095", "U+1096", "U+1097", "U+1098", "U+1099">>,
      <<"U+17E0", "U+17E1", "U+17E2", "U+17E3", "U+17E4", "U+17E5", "U+17E6", "U+17E7", "U+17E8", "U+17E9">>,
      <<"U+1810", "U+1811", "U+1812", "U+1813", "U+1814", "U+1815", "U+1816", "U+1817", "U+1818", "U+1819">>,
      <<"U+1946", "U+1947", "U+1948", "U+1949", "U+194A", "U+194B", "U+194C", "U+194D", "U+194E", "U+194F">>,
      <<"U+19D0", "U+19D1", "U+19D2", "U+19D3", "U+19D4", "U+19D5", "U+19D6", "U+19D7", "U+19D8", "U+19D9">>,
      <<"U+1A80", "U+1A81", "U+1A82", "U+1A83", "U+1A84", "U+1A85", "U+1A86", "U+1A87", "U+1A88", "U+1A89">>,
      <<"U+1A90", "U+1A91", "U+1A92", "U+1A93", "U+1A94", "U+1A95", "U+1A96", "U+1A97", "U+1A98", "U+1A99">>,
      <<"U+1B50", "U+1B51", "U+1B52", "U+1B53", "U+1B54", "U+1B55", "U+1B56", "U+1B57", "U+1B58", "U+1B59">>,
      <<"U+1BB0", "U+1BB1", "U+1BB2", "U+1BB3", "U+1BB4", "U+1BB5", "U+1BB6", "U+1BB7", "U+1BB8", "U+1BB9">>,
      <<"U+1C40", "U+1C41", "U+1C42", "U+1C43", "U+1C44", "U+1C45", "U+1C46", "U+1C47", "U+1C48", "U+1C49">>,
      <<"U+1C50", "U+1C51", "U+1C52", "U+1C53", "U+1C54", "U+1C55", "U+1C56", "U+1C57", "U+1C58", "U+1C59">>,
      <<"U+A620", "U+A621", "U+A622", "U+A623", "U+A624", "U+A625", "U+A626", "U+A627", "U+A628", "U+A629">>,
      <<"U+A8D0", "U+A8D1", "U+A8D2", "U+A8D3", "U+A8D4", "U+A8D5", "U+A8D6", "U+A8D7", "U+A8D8", "U+A8D9">>,
      <<"U+A900", "U+A901", "U+A902", "U+A903", "U+A904", "U+A905", "U+A906", "U+A907", "U+A908", "U+A909">>,
      <<"U+A9D0", "U+A9D1", "U+A9D2", "U+A9D3", "U+A9D4", "U+A9D5", "U+A9D6", "U+A9D7", "U+A9D8", "U+A9D9">>,
      <<"U+A9F0", "U+A9F1", "U+A9F2", "U+A9F3", "U+A9F4", "U+A9F5", "U+A9F6", "U+A9F7", "U+A9F8", "U+A9F9">>,
      <<"U+AA50", "U+AA51", "U+AA52", "U+AA53", "U+AA54", "U+AA55", "U+AA56", "U+AA57", "U+AA58", "U+AA59">>,
      <<"U+ABF0", "U+ABF1", "U+ABF2", "U+ABF3", "U+ABF4", "U+ABF5", "U+ABF6", "U+ABF7", "U+ABF8", "U+ABF9">>,
      <<"U+FF10", "U+FF11", "U+FF12", "U+FF13", "U+FF14", "U+FF15", "U+FF16", "U+FF17", "U+FF18", "U+FF19">>,
      <<"U+104A0", "U+104A1", "U+104A2", "U+104A3", "U+104A4", "U+104A5", "U+104A6", "U+104A7", "U+104A8", "U+104A9">>,
      <<"U+10D30", "U+10D31", "U+10D32", "U+10D33", "U+10D34", "U+10D35", "U+10D36", "U+10D37", "U+10D38", "U+10D39">>,
      <<"U+11066", "U+11067", "U+11068", "U+11069", "U+1106A", "U+1106B", "U+1106C", "U+1106D", "U+1106E", "U+1106F">>,
      <<"U+110F0", "U+110F1", "U+110F2", "U+110F3", "U+110F4", "U+110F5", "U+110F6", "U+110F7", "U+110F8", "U+110F9">>,
      <<"U+11136", "U+11137", "U+11138", "U+11139", "U+1113A", "U+1113B", "U+1113C", "U+1113D", "U+1113E", "U+1113F">>,
      <<"U+111D0", "U+111D1", "U+111D2", "U+111D3", "U+111D4", "U+111D5", "U+111D6", "U+111D7", "U+111D8", "U+111D9">>,
      <<"U+112F0", "U+112F1", "U+112F2", "U+112F3", "U+112F4", "U+112F5", "U+112F6", "U+112F7", "U+112F8", "U+112F9">>,
      <<"U+11450", "U+11451", "U+11452", "U+11453", "U+11454", "U+11455", "U+11456", "U+11457", "U+11458", "U+11459">>,
      <<"U+114D0", "U+114D1", "U+114D2", "U+114D3", "U+114D4", "U+114D5", "U+114D6", "U+114D7", "U+114D8", "U+114D9">>,
      <<"U+11650", "U+11651", "U+11652", "U+11653", "U+11654", "U+11655", "U+11656", "U+11657", "U+11658", "U+11659">>,
      <<"U+116C0", "U+116C1", "U+116C2", "U+116C3", "U+116C4", "U+116C5", "U+116C6", "U+116C7", "U+116C8", "U+116C9">>,
      <<"U+11730", "U+11731", "U+11732", "U+11733", "U+11734", "U+11735", "U+11736", "U+11737", "U+11738", "U+11739">>,
      <<"U+118E0", "U+118E1", "U+118E2", "U+118E3", "U+118E4", "U+118E5", "U+118E6", "U+118E7", "U+118E8", "U+118E9">>,
      <<"U+11950", "U+11951", "U+11952", "U+11953", "U+11954", "U+11955", "U+11956", "U+11957", "U+11958", "U+11959">>,
      <<"U+11C50", "U+11C51", "U+11C52", "U+11C53", "U+11C54", "U+11C55", "U+11C56", "U+11C57", "U+11C58", "U+11C59">>,
      <<"U+11D50", "U+11D51", "U+11D52", "U+11D53", "U+11D54", "U+11D55", "U+11D56", "U+11D57", "U+11D58", "U+11D59">>,
      <<"U+11DA0", "U+11DA1", "U+11DA2", "U+11DA3", "U+11DA4", "U+11DA5", "U+11DA6", "U+11DA7", "U+11DA8", "U+11DA9">>,
      <<"U+16A60", "U+16A61", "U+16A62", "U+16A63", "U+16A64", "U+16A65", "U+16A66", "U+16A67", "U+16A68", "U+16A69">>,
      <<"U+16AC0", "U+16AC1", "U+16AC2", "U+16AC3", "U+16AC4", "U+16AC5", "U+16AC6", "U+16AC7", "U+16AC8", "U+16AC9">>,
      <<"U+16B50", "U+16B51", "U+16B52", "U+16B53", "U+16B54", "U+16B55", "U+16B56", "U+16B57", "U+16B58", "U+16B59">>,
      <<"U+1D7CE", "U+1D7CF", "U+1D7D0", "U+1D7D1", "U+1D7D2", "U+1D7D3", "U+1D7D4", "U+1D7D5", "U+1D7D6", "U+1D7D7">>,
      <<"U+1D7D8", "U+1D7D9", "U+1D7DA", "U+1D7DB", "U+1D7DC", "U+1D7DD", "U+1D7DE", "U+1D7DF", "U+1D7E0", "U+1D7E1">>,
      <<"U+1D7E2", "U+1D7E3", "U+1D7E4", "U+1D7E5", "U+1D7E6", "U+1D7E7", "U+1D7E8", "U+1D7E9", "U+1D7EA", "U+1D7EB">>,
      <<"U+1D7EC", "U+1D7ED", "U+1D7EE", "U+1D7EF", "U+1D7F0", "U+1D7F1", "U+1D7F2", "U+1D7F3", "U+1D7F4", "U+1D7F5">>,
      <<"U+1D7F6", "U+1D7F7", "U+1D7F8", "U+1D7F9", "U+1D7FA", "U+1D7FB", "U+1D7FC", "U+1D7FD", "U+1D7FE", "U+1D7FF">>,
      <<"U+1E140", "U+1E141", "U+1E142", "U+1E143", "U+1E144", "U+1E145", "U+1E146", "U+1E147", "U+1E148", "U+1E149">>,
      <<"U+1E2F0", "U+1E2F1", "U+1E2F2", "U+1E2F3", "U+1E2F4", "U+1E2F5", "U+1E2F6", "U+1E2F7", "U+1E2F8", "U+1E2F9">>,
      <<"U+1E950", "U+1E951", "U+1E952", "U+1E953", "U+1E954", "U+1E955", "U+1E956", "U+1E957", "U+1E958", "U+1E959">>,
      <<"U+1FBF0", "U+1FBF1", "U+1FBF2", "U+1FBF3", "U+1FBF4", "U+1FBF5", "U+1FBF6", "U+1FBF7", "U+1FBF8", "U+1FBF9">> }

Digits == UNION {{run[k] : k \in 1..10} : run \in DecimalDigits}

AsciiDigits == {"0", "1", "2", "3", "4", "5", "6", "7", "8", "9"}

\* the decimal value of a digit
DigitVal(c) ==
    CASE c = "0" -> 0 [] c = "1" -> 1 [] c = "2" -> 2 [] c = "3" -> 3
      [] c = "4" -> 4 [] c = "5" -> 5 [] c = "6" -> 6 [] c = "7" -> 7
      [] c = "8" -> 8 [] c = "9" -> 9
      [] OTHER -> CHOOSE v \in 0..9 : \E run \in DecimalDigits : run[v + 1] = c

\* the characters str.isspace() is true of: what str.strip() removes
Whitespace ==
    { "\t", "\n", "U+000B", "\f", "\r", "U+001C", "U+001D",
      "U+001E", "U+001F", " ", "U+0085", "U+00A0", "U+1680", "U+2000",
      "U+2001", "U+2002", "U+2003", "U+2004", "U+2005", "U+2006", "U+2007",
      "U+2008", "U+2009", "U+200A", "U+2028", "U+2029", "U+202F", "U+205F",
      "U+3000" }

\* the characters int() itself skips around a literal: the same but for the
\* four separators U+001C to U+001F
IntWhitespace == Whitespace \ {"U+001C", "U+001D", "U+001E", "U+001F"}

\* str.replace(old, new) for one-character old and new
Replace(s, old, new) == [i \in 1..Len(s) |-> IF s[i] = old THEN new ELSE s[i]]

\* str.split(sep) for a one-character sep: always at least one field
RECURSIVE SplitFrom(_, _, _, _)
SplitFrom(s, sep, i, cur) ==
    IF i > Len(s) THEN <<cur>>
    ELSE IF s[i] = sep THEN <<cur>> \o SplitFrom(s, sep, i + 1, <<>>)
    ELSE SplitFrom(s, sep, i + 1, Append(cur, s[i]))

Split(s, sep) == SplitFrom(s, sep, 1, <<>>)

\* leading characters of the set ws removed
RECURSIVE LStripOf(_, _)
LStripOf(s, ws) == IF s # <<>> /\ Head(s) \in ws THEN LStripOf(Tail(s), ws) ELSE s

\* trailing characters of the set ws removed
RECURSIVE RStripOf(_, _)
RStripOf(s, ws) ==
    IF s # <<>> /\ s[Len(s)] \in ws
    THEN RStripOf(SubSeq(s, 1, Len(s) - 1), ws) ELSE s

LStrip(s) == LStripOf(s, Whitespace)

RStrip(s) == RStripOf(s, Whitespace)

\* str.strip(): leading and trailing whitespace removed
Strip(s) == RStrip(LStrip(s))

\* the digits of s read as a decimal number, "_" separators skipped
RECURSIVE DecimalValue(_, _)
DecimalValue(s, acc) ==
    IF s = <<>> THEN acc
    ELSE IF Head(s) = "_" THEN DecimalValue(Tail(s), acc)
    ELSE DecimalValue(Tail(s), 10 * acc + DigitVal(Head(s)))

\* the body of an int() literal: digits, single underscores only between digits
IsIntBody(s) ==
    /\ s # <<>>
    /\ \A i \in 1..Len(s) : s[i] \in Digits \cup {"_"}
    /\ s[1] # "_"
    /\ s[Len(s)] # "_"
    /\ \A i \in 1..(Len(s) - 1) : ~(s[i] = "_" /\ s[i + 1] = "_")

\* int(str): [ok |-> FALSE] stands for ValueError
ParseInt(str) ==
    LET t    == RStripOf(LStripOf(str, IntWhitespace), IntWhitespace)
        sign == IF t # <<>> /\ t[1] \in {"+", "-"} THEN t[1] ELSE ""
        body == IF sign = "" THEN t ELSE Tail(t)
    IN  IF IsIntBody(body)
        THEN [ok |-> TRUE,
              val |-> IF sign = "-" THEN 0 - DecimalValue(body, 0)
                      ELSE DecimalValue(body, 0)]
        ELSE [ok |-> FALSE, val |-> 0]

(***************************************************************************)
(* Dates: datetime.strptime(s, '%m/%d/%Y').date() and date subtraction     *)
(***************************************************************************)
IsLeap(y) == y % 4 = 0 /\ (y % 100 # 0 \/ y % 400 = 0)

DaysInMonth(y, m) ==
    IF m = 2 THEN (IF IsLeap(y) THEN 29 ELSE 28)
    ELSE IF m \in {4, 6, 9, 11} THEN 30 ELSE 31

DaysBeforeYear(y) ==
    LET p == y - 1 IN p * 365 + (p \div 4) - (p \div 100) + (p \div 400)

RECURSIVE DaysBeforeMonth(_, _)
DaysBeforeMonth(y, m) ==
    IF m = 1 THEN 0 ELSE DaysBeforeMonth(y, m - 1) + DaysInMonth(y, m - 1)

\* date.toordinal()
ToOrdinal(d) == DaysBeforeYear(d.y) + DaysBeforeMonth(d.y, d.m) + d.d

\* %m : 1[0-2] | 0[1-9] | [1-9]   (character classes of ASCII digits)
MonthField(f) ==
    \/ Len(f) = 2 /\ f[1] = "1" /\ f[2] \in {"0", "1", "2"}
    \/ Len(f) = 2 /\ f[1] = "0" /\ f[2] \in AsciiDigits \ {"0"}
    \/ Len(f) = 1 /\ f[1] \in AsciiDigits \ {"0"}

\* %d : 3[0-1] | [1-2]\d | 0[1-9] | [1-9] | " "[1-9]   (\d is any decimal digit)
DayField(f) ==
    \/ Len(f) = 2 /\ f[1] = "3" /\ f[2] \in {"0", "1"}
    \/ Len(f) = 2 /\ f[1] \in {"1", "2"} /\ f[2] \in Digits
    \/ Len(f) = 2 /\ f[1] \in {"0", " "} /\ f[2] \in AsciiDigits \ {"0"}
    \/ Len(f) = 1 /\ f[1] \in AsciiDigits \ {"0"}

\* %Y : \d\d\d\d
YearField(f) == Len(f) = 4 /\ \A i \in 1..4 : f[i] \in Digits

\* strptime(s, '%m/%d/%Y').date(): [ok |-> FALSE] stands for ValueError
ParseDate(s) ==
    LET parts == Split(s, "/")
        bad   == [ok |-> FALSE, date |-> [y |-> 1, m |-> 1, d |-> 1]]
    IN  IF Len(parts) # 3 THEN bad
        ELSE IF ~(MonthField(parts[1]) /\ DayField(parts[2]) /\ YearField(parts[3]))
        THEN bad
        ELSE LET y  == DecimalValue(parts[3], 0)
                 m  == DecimalValue(parts[1], 0)
                 dd == DecimalValue(LStripOf(parts[2], {" "}), 0)
             IN  IF y < 1 \/ dd > DaysInMonth(y, m) THEN bad
                 ELSE [ok |-> TRUE, date |-> [y |-> y, m |-> m, d |-> dd]]

\* (due_date - today).days
DaysBetween(due, today) == ToOrdinal(due) - ToOrdinal(today)

(***************************************************************************)
(* The sheet: header-indexed row access (lines 117, 124-125, 158, 166)     *)
(***************************************************************************)
\* {header: i for i, header in enumerate(headers)}: 0-based, last duplicate wins
HeaderMap(headers) ==
    [h \in {headers[i] : i \in 1..Len(headers)} |->
        (CHOOSE i \in 1..Len(headers) :
            headers[i] = h /\ \A j \in (i + 1)..Len(headers) : headers[j] # h) - 1]

\* row[header_map.get(label)] if label in header_map and len(row) > index else default
Cell(row, header_map, label, default) ==
    IF label \in DOMAIN header_map /\ Len(row) > header_map[label]
    THEN row[header_map[label] + 1]
    ELSE default

NA == <<"N", "/", "A">>

\* f"{item_name.replace(' ', '-')}-{due_date_str}"
ItemId(item_name, due_date_str) ==
    Replace(item_name, " ", "-") \o <<"-">> \o due_date_str

\* the ItemID of a row, or <<>> for a row skipped at line 129
RowItemId(row, header_map) ==
    LET item_name    == Cell(row, header_map, "ItemName", <<>>)
        due_date_str == Cell(row, header_map, "DueDate", <<>>)
    IN  IF item_name = <<>> \/ due_date_str = <<>> THEN <<>>
        ELSE ItemId(item_name, due_date_str)

(***************************************************************************)
(* The status table                                                        *)
(***************************************************************************)
\* table.get_item(Key={'ItemID': item_id}): 'Item' is in the response or not
GetItem(t, item_id) ==
    IF item_id \in DOMAIN t
    THEN [found |-> TRUE, Status |-> t[item_id]]
    ELSE [found |-> FALSE, Status |-> ""]

\* variant: the stored status is not read
ItemStatus_IgnoresStored(resp) == "Active"

\* response.get('Item', {}).get('Status', 'Active')
ItemStatus(resp) == IF resp.found THEN resp.Status ELSE "Active"

\* variant: a put of a key that is already there removes the record
PutItem_NotIdempotent(t, item_id, status) ==
    IF item_id \in DOMAIN t
    THEN [k \in DOMAIN t \ {item_id} |-> t[k]]
    ELSE [k \in DOMAIN t \cup {item_id} |-> IF k = item_id THEN status ELSE t[k]]

\* table.put_item(Item={'ItemID': item_id, 'Status': status}): insert or overwrite
PutItem(t, item_id, status) ==
    [k \in DOMAIN t \cup {item_id} |-> IF k = item_id THEN status ELSE t[k]]

\* variant: registers whenever the status reads Active
NeedsRegistration_WhenActive(resp) == ItemStatus(resp) = "Active"

\* line 144: 'Item' not in response
NeedsRegistration(resp) == ~resp.found

(***************************************************************************)
(* Due-date evaluation of one row (lines 148-186, the sends excepted)      *)
(***************************************************************************)
RECURSIVE StripAll(_)
StripAll(fields) ==
    IF fields = <<>> THEN <<>>
    ELSE <<Strip(Head(fields))>> \o StripAll(Tail(fields))

\* [int(d.strip()) for d in advance_days_str.split(',') if d.strip()]
\* [ok |-> FALSE] stands for the ValueError of int()
AdvanceDaysList(advance_days_str) ==
    LET tokens == SelectSeq(StripAll(Split(advance_days_str, ",")),
                            LAMBDA d : d # <<>>)
    IN  IF \E i \in 1..Len(tokens) : ~ParseInt(tokens[i]).ok
        THEN [ok |-> FALSE, list |-> <<>>]
        ELSE [ok |-> TRUE,
              list |-> [i \in 1..Len(tokens) |-> ParseInt(tokens[i]).val]]

InList(x, list) == \E i \in 1..Len(list) : list[i] = x

OverdueEvent(row, header_map, days_until_due) ==
    [kind         |-> "Overdue",
     item_name    |-> Cell(row, header_map, "ItemName", <<>>),
     due_date_str |-> Cell(row, header_map, "DueDate", <<>>),
     days         |-> 0 - days_until_due,
     policy_no    |-> Cell(row, header_map, "Policy/Inv. No.", NA),
     amount       |-> <<>>,
     name_on_inv  |-> <<>>,
     place_branch |-> <<>>]

DueSoonEvent(row, header_map, days_until_due) ==
    [kind         |-> "DueSoon",
     item_name    |-> Cell(row, header_map, "ItemName", <<>>),
     due_date_str |-> Cell(row, header_map, "DueDate", <<>>),
     days         |-> days_until_due,
     policy_no    |-> Cell(row, header_map, "Policy/Inv. No.", NA),
     amount       |-> Cell(row, header_map, "Amount", NA),
     name_on_inv  |-> Cell(row, header_map, "Name on Inv.", NA),
     place_branch |-> Cell(row, header_map, "Place/Branch", NA)]

NoEvent == [kind |-> "None"]

\* variant: the advance-days cell is parsed before the overdue check
EvaluateRow_AdvanceFirst(row, header_map, day) ==
    LET due_date_str == Cell(row, header_map, "DueDate", <<>>)
        parsed       == ParseDate(due_date_str)
        days_until_due == DaysBetween(parsed.date, day)
        advance      == AdvanceDaysList(Cell(row, header_map, "AdvanceDays", <<>>))
    IN  IF ~parsed.ok THEN [outcome |-> "BadDate", event |-> NoEvent]
        ELSE IF ~advance.ok THEN [outcome |-> "ValueError", event |-> NoEvent]
        ELSE IF days_until_due < 0
        THEN [outcome |-> "Overdue",
              event |-> OverdueEvent(row, header_map, days_until_due)]
        ELSE IF InList(days_until_due, advance.list)
        THEN [outcome |-> "DueSoon",
              event |-> DueSoonEvent(row, header_map, days_until_due)]
        ELSE [outcome |-> "None", event |-> NoEvent]

\* variant: the ValueError of strptime is not caught inside the loop
EvaluateRow_BadDateRaises(row, header_map, day) ==
    LET due_date_str == Cell(row, header_map, "DueDate", <<>>)
        parsed       == ParseDate(due_date_str)
        days_until_due == DaysBetween(parsed.date, day)
        advance      == AdvanceDaysList(Cell(row, header_map, "AdvanceDays", <<>>))
    IN  IF ~parsed.ok THEN [outcome |-> "ValueError", event |-> NoEvent]
        ELSE IF days_until_due < 0
        THEN [outcome |-> "Overdue",
              event |-> OverdueEvent(row, header_map, days_until_due)]
        ELSE IF ~advance.ok THEN [outcome |-> "ValueError", event |-> NoEvent]
        ELSE IF InList(days_until_due, advance.list)
        THEN [outcome |-> "DueSoon",
              event |-> DueSoonEvent(row, header_map, days_until_due)]
        ELSE [outcome |-> "None", event |-> NoEvent]

\* What lines 148-186 decide for a row that reached them:
\*   "BadDate"    strptime raised ValueError, caught at line 153: row skipped
\*   "Overdue"    days_until_due < 0
\*   "ValueError" int() raised at line 167: not caught inside the loop
\*   "DueSoon"    days_until_due in advance_days_list
\*   "None"       no reminder needed today
EvaluateRow(row, header_map, day) ==
    LET due_date_str == Cell(row, header_map, "DueDate", <<>>)
        parsed       == ParseDate(due_date_str)
        days_until_due == DaysBetween(parsed.date, day)
        advance      == AdvanceDaysList(Cell(row, header_map, "AdvanceDays", <<>>))
    IN  IF ~parsed.ok THEN [outcome |-> "BadDate", event |-> NoEvent]
        ELSE IF days_until_due < 0
        THEN [outcome |-> "Overdue",
              event |-> OverdueEvent(row, header_map, days_until_due)]
        ELSE IF ~advance.ok THEN [outcome |-> "ValueError", event |-> NoEvent]
        ELSE IF InList(days_until_due, advance.list)
        THEN [outcome |-> "DueSoon",
              event |-> DueSoonEvent(row, header_map, days_until_due)]
        ELSE [outcome |-> "None", event |-> NoEvent]

(***************************************************************************)
(* Inputs: the sheets, dates, stored records and channel settings the      *)
(* model is run on.                                                        *)
(***************************************************************************)
MaxRows == 2
MaxPasses == 2

S_AB == <<"A", " ", "B">>
S_C == <<"C">>
S_0301 == <<"0", "3", "/", "0", "1", "/", "2", "0", "2", "5">>
S_0222 == <<"0", "2", "/", "2", "U+0662", "/", "2", "0", "U+0662", "5">>
S_0230 == <<"0", "2", "/", "3", "0", "/", "2", "0", "2", "5">>
S_31 == <<"3", "/", "1", "/", "2", "0", "2", "5">>
S_731 == <<"7", ",", "3", ",", "1">>
S_7s31 == <<"\f", "7", " ", ",", ",", "U+00A0", "3", ",", "U+0661">>
S_7x == <<"7", ",", " ", "x">>
S_P1 == <<"P", "1">>

HeadersFull == <<"ItemName", "DueDate", "AdvanceDays", "Policy/Inv. No.">>
HeadersNoDueDate == <<"AdvanceDays", "ItemName">>

RowFields(name, due, adv, width) ==
    [name |-> name, due |-> due, adv |-> adv, width |-> width]

\* rows as the sheet's columns hold them; width cuts a row short
RowPool ==
    { RowFields(S_AB, S_0301, S_7s31, 4),
      RowFields(S_C, S_0222, S_731, 3),
      RowFields(S_C, S_0230, S_731, 4),
      RowFields(S_C, S_31, S_7x, 4),
      RowFields(S_AB, S_0301, S_7s31, 1) }

OverlapRowPool ==
    { RowFields(S_AB, S_0301, S_731, 4),
      RowFields(S_C, S_0222, S_731, 3),
      RowFields(S_C, S_0230, S_731, 4) }

MakeRow(headers, f) ==
    LET full == [i \in 1..Len(headers) |->
                    CASE headers[i] = "ItemName" -> f.name
                      [] headers[i] = "DueDate" -> f.due
                      [] headers[i] = "AdvanceDays" -> f.adv
                      [] OTHER -> S_P1]
    IN  SubSeq(full, 1, IF f.width < Len(full) THEN f.width ELSE Len(full))

RowSeqs(pool) == UNION {[1..n -> pool] : n \in 0..MaxRows}

\* worksheet.get_all_values(): the header row, then the data rows; <<>> is
\* the empty worksheet
Sheets(headerSets, pool) ==
    {<<>>} \cup
    { <<h>> \o [i \in 1..Len(rs) |-> MakeRow(h, rs[i])] :
        h \in headerSets, rs \in RowSeqs(pool) }

\* the dates datetime.now().date() may give an invocation
Todays == { [y |-> 2025, m |-> 2, d |-> 22], [y |-> 2025, m |-> 3, d |-> 5] }

OverlapDay == [y |-> 2025, m |-> 2, d |-> 22]

\* today before the invocation has read the clock
NoDate == [y |-> 1, m |-> 1, d |-> 1]

EmptyTable == [k \in {} |-> ""]

Tables ==
    { EmptyTable,
      [k \in {ItemId(S_AB, S_0301), ItemId(S_C, S_0222)} |->
          IF k = ItemId(S_AB, S_0301) THEN "Handled" ELSE "Active"] }

\* whether TELEGRAM_BOT_TOKEN/TELEGRAM_CHAT_ID and FROM_EMAIL/TO_EMAIL are set
Configs == [chat : BOOLEAN, email : BOOLEAN]

Slots == {1, 2}

(***************************************************************************)
(* State                                                                   *)
(***************************************************************************)
VARIABLES
    sheet,         \* what worksheet.get_all_values() returns
    today,         \* per invocation: datetime.now().date() as line 100 read it
    config,        \* the channel settings read from the environment
    table,         \* the DynamoDB table: ItemID -> Status
    table0,        \* the table before the first pass (history)
    passes,        \* invocations started so far
    pc,            \* per invocation: where daily_reminder_handler stands
    idx,           \* per invocation: the data row being processed (1-based)
    response,      \* per invocation: the get_item response of the current row
    error,         \* per invocation: the exception caught at line 191, or ""
    events,        \* per invocation: notification events built so far
    chatLog,       \* per invocation: calls of send_telegram_alert
    emailLog,      \* per invocation: calls of send_email_alert
    lastSend,      \* per invocation: how the current event's sends ended
    puts,          \* per invocation: put_item calls that returned
    gets,          \* per invocation: get_item calls that returned (row, found)
    handledSince,  \* per invocation: ItemIDs Handled from its start until now
    acked          \* ItemIDs the acknowledging actor has written (history)

vars == <<sheet, today, config, table, table0, passes, pc, idx, response, error,
          events, chatLog, emailLog, lastSend, puts, gets, handledSince, acked>>

env == <<sheet, config, table0>>

logs == <<events, chatLog, emailLog, puts, gets>>

Headers == sheet[1]
NumRows == Len(sheet) - 1
DataRow(i) == sheet[i + 1]

NoResponse == [found |-> FALSE, Status |-> ""]
NoSend == [chat |-> "", email |-> ""]

SheetItemIds ==
    IF sheet = <<>> THEN {}
    ELSE {RowItemId(DataRow(i), HeaderMap(Headers)) : i \in 1..NumRows} \ {<<>>}

HandledIds(t) == {k \in DOMAIN t : t[k] = "Handled"}

InitWith(sheets, tables, configs) ==
    /\ sheet \in sheets
    /\ today = [p \in Slots |-> NoDate]
    /\ config \in configs
    /\ table \in tables
    /\ table0 = table
    /\ passes = 0
    /\ pc = [p \in Slots |-> "idle"]
    /\ idx = [p \in Slots |-> 0]
    /\ response = [p \in Slots |-> NoResponse]
    /\ error = [p \in Slots |-> ""]
    /\ events = [p \in Slots |-> <<>>]
    /\ chatLog = [p \in Slots |-> <<>>]
    /\ emailLog = [p \in Slots |-> <<>>]
    /\ lastSend = [p \in Slots |-> NoSend]
    /\ puts = [p \in Slots |-> <<>>]
    /\ gets = [p \in Slots |-> <<>>]
    /\ handledSince = [p \in Slots |-> {}]
    /\ acked = {}

Init == InitWith(Sheets({HeadersFull, HeadersNoDueDate}, RowPool), Tables, Configs)

InitOverlap ==
    InitWith(Sheets({HeadersFull}, OverlapRowPool) \ {<<>>}, Tables,
             {[chat |-> TRUE, email |-> TRUE]})

(***************************************************************************)
(* The channels                                                            *)
(***************************************************************************)
\* send_telegram_alert: returns early when the settings are unset, else one
\* requests.post whose RequestException is caught and printed
ChatResults == IF config.chat THEN {"sent", "failed"} ELSE {"skipped"}

\* send_email_alert: returns early when the settings are unset, else one
\* ses_client.send_email whose Exception is caught and printed
EmailResults == IF config.email THEN {"sent", "failed"} ELSE {"skipped"}

(***************************************************************************)
(* daily_reminder_handler, step by step                                    *)
(***************************************************************************)
Running(p) == pc[p] \notin {"idle", "returned", "raised"}

\* lines 98-100: a new invocation begins and reads the clock, which shows day
StartAt(p, day) ==
    /\ ~Running(p)
    /\ passes < MaxPasses
    /\ passes' = passes + 1
    /\ today' = [today EXCEPT ![p] = day]
    /\ pc' = [pc EXCEPT ![p] = "auth"]
    /\ idx' = [idx EXCEPT ![p] = 0]
    /\ response' = [response EXCEPT ![p] = NoResponse]
    /\ error' = [error EXCEPT ![p] = ""]
    /\ events' = [events EXCEPT ![p] = <<>>]
    /\ chatLog' = [chatLog EXCEPT ![p] = <<>>]
    /\ emailLog' = [emailLog EXCEPT ![p] = <<>>]
    /\ lastSend' = [lastSend EXCEPT ![p] = NoSend]
    /\ puts' = [puts EXCEPT ![p] = <<>>]
    /\ gets' = [gets EXCEPT ![p] = <<>>]
    /\ handledSince' = [handledSince EXCEPT ![p] = HandledIds(table)]
    /\ UNCHANGED <<env, acked, table>>

Start(p) == \E day \in Todays : StartAt(p, day)

\* one invocation at a time (the scheduler's daily timer)
StartAlone(p) == (\A q \in Slots : ~Running(q)) /\ Start(p)

\* invocations that overlap start on the same day
StartOverlap(p) == StartAt(p, OverlapDay)

\* line 104: get_gspread_client() returns
GetClient(p) ==
    /\ pc[p] = "auth"
    /\ pc' = [pc EXCEPT ![p] = "fetch"]
    /\ UNCHANGED <<env, today, acked, table, passes, idx, response, error, events, chatLog,
                   emailLog, lastSend, puts, gets, handledSince>>

\* line 104: get_gspread_client() raises (Parameter Store, credentials)
GetClientFails(p) ==
    /\ pc[p] = "auth"
    /\ pc' = [pc EXCEPT ![p] = "except"]
    /\ error' = [error EXCEPT ![p] = "credentials"]
    /\ UNCHANGED <<env, today, acked, table, passes, idx, response, events, chatLog,
                   emailLog, lastSend, puts, gets, handledSince>>

\* lines 105-117: the sheet is read; all_values[0] of an empty worksheet
\* raises IndexError
FetchSheet(p) ==
    /\ pc[p] = "fetch"
    /\ IF sheet = <<>>
       THEN /\ pc' = [pc EXCEPT ![p] = "except"]
            /\ error' = [error EXCEPT ![p] = "IndexError"]
            /\ idx' = idx
       ELSE /\ pc' = [pc EXCEPT ![p] = "row"]
            /\ idx' = [idx EXCEPT ![p] = 1]
            /\ error' = error
    /\ UNCHANGED <<env, today, acked, table, passes, response, events, chatLog,
                   emailLog, lastSend, puts, gets, handledSince>>

\* lines 105-109: opening or reading the spreadsheet raises
FetchSheetFails(p) ==
    /\ pc[p] = "fetch"
    /\ pc' = [pc EXCEPT ![p] = "except"]
    /\ error' = [error EXCEPT ![p] = "sheet"]
    /\ UNCHANGED <<env, today, acked, table, passes, idx, response, events, chatLog,
                   emailLog, lastSend, puts, gets, handledSince>>

\* lines 120-142: the row's name and date, its ItemID, the get_item and the
\* Handled check
RowGet(p) ==
    /\ pc[p] = "row"
    /\ idx[p] <= NumRows
    /\ LET item_id == RowItemId(DataRow(idx[p]), HeaderMap(Headers))
           resp    == GetItem(table, item_id)
       IN  IF item_id = <<>>
           THEN /\ idx' = [idx EXCEPT ![p] = @ + 1]
                /\ UNCHANGED <<pc, response, gets>>
           ELSE /\ gets' = [gets EXCEPT ![p] =
                               Append(@, [row |-> idx[p], found |-> resp.found,
                                          Status |-> ItemStatus(resp)])]
                /\ IF ItemStatus(resp) = "Handled"
                   THEN /\ idx' = [idx EXCEPT ![p] = @ + 1]
                        /\ UNCHANGED <<pc, response>>
                   ELSE /\ pc' = [pc EXCEPT ![p] = "register"]
                        /\ response' = [response EXCEPT ![p] = resp]
                        /\ idx' = idx
    /\ lastSend' = [lastSend EXCEPT ![p] = NoSend]
    /\ UNCHANGED <<env, today, acked, table, passes, error, events, chatLog, emailLog,
                   puts, handledSince>>

\* lines 120-136: the row is not skipped and table.get_item raises (ClientError,
\* a connection error): no response, on to line 191
GetItemFails(p) ==
    /\ pc[p] = "row"
    /\ idx[p] <= NumRows
    /\ RowItemId(DataRow(idx[p]), HeaderMap(Headers)) # <<>>
    /\ pc' = [pc EXCEPT ![p] = "except"]
    /\ error' = [error EXCEPT ![p] = "get_item"]
    /\ lastSend' = [lastSend EXCEPT ![p] = NoSend]
    /\ UNCHANGED <<env, today, acked, table, passes, idx, response, events, chatLog,
                   emailLog, puts, gets, handledSince>>

\* lines 144-146: the item is first seen and table.put_item raises: nothing is
\* written, the row is not evaluated, on to line 191
PutItemFails(p) ==
    /\ pc[p] = "register"
    /\ NeedsRegistration(response[p])
    /\ pc' = [pc EXCEPT ![p] = "except"]
    /\ error' = [error EXCEPT ![p] = "put_item"]
    /\ UNCHANGED <<env, today, acked, table, passes, idx, response, events, chatLog,
                   emailLog, lastSend, puts, gets, handledSince>>

\* lines 144-186 up to the sends: first-seen registration, then the due-date
\* evaluation of the row
RowRegisterEvaluate(p) ==
    /\ pc[p] = "register"
    /\ LET row     == DataRow(idx[p])
           hm      == HeaderMap(Headers)
           item_id == RowItemId(row, hm)
           result  == EvaluateRow(row, hm, today[p])
       IN  /\ IF NeedsRegistration(response[p])
              THEN /\ table' = PutItem(table, item_id, "Active")
                   /\ puts' = [puts EXCEPT ![p] =
                                  Append(@, [row |-> idx[p], ItemID |-> item_id,
                                             Status |-> "Active"])]
                   /\ handledSince' = [q \in Slots |-> handledSince[q] \ {item_id}]
              ELSE UNCHANGED <<table, puts, handledSince>>
           /\ IF result.outcome \in {"Overdue", "DueSoon"}
              THEN /\ events' = [events EXCEPT ![p] =
                                    Append(@, [row |-> idx[p], item_id |-> item_id,
                                               event |-> result.event])]
                   /\ pc' = [pc EXCEPT ![p] = "chat"]
                   /\ UNCHANGED <<idx, error>>
              ELSE IF result.outcome = "ValueError"
              THEN /\ pc' = [pc EXCEPT ![p] = "except"]
                   /\ error' = [error EXCEPT ![p] = "ValueError"]
                   /\ UNCHANGED <<idx, events>>
              ELSE /\ pc' = [pc EXCEPT ![p] = "row"]
                   /\ idx' = [idx EXCEPT ![p] = @ + 1]
                   /\ UNCHANGED <<error, events>>
    /\ UNCHANGED <<env, today, acked, passes, response, chatLog, emailLog, lastSend, gets>>

\* variant: a failed requests.post is not caught in send_telegram_alert
SendChat_Uncaught(p) ==
    /\ pc[p] = "chat"
    /\ \E r \in ChatResults :
        /\ chatLog' = [chatLog EXCEPT ![p] =
                          Append(@, [row |-> idx[p],
                                     kind |-> events[p][Len(events[p])].event.kind])]
        /\ lastSend' = [lastSend EXCEPT ![p].chat = r]
        /\ IF r = "failed"
           THEN /\ pc' = [pc EXCEPT ![p] = "except"]
                /\ error' = [error EXCEPT ![p] = "RequestException"]
           ELSE /\ pc' = [pc EXCEPT ![p] = "email"]
                /\ error' = error
    /\ UNCHANGED <<env, today, acked, table, passes, idx, response, events, emailLog,
                   puts, gets, handledSince>>

\* lines 162 and 183: send_telegram_alert for the row's event
SendChat(p) ==
    /\ pc[p] = "chat"
    /\ \E r \in ChatResults :
        /\ chatLog' = [chatLog EXCEPT ![p] =
                          Append(@, [row |-> idx[p],
                                     kind |-> events[p][Len(events[p])].event.kind])]
        /\ lastSend' = [lastSend EXCEPT ![p].chat = r]
    /\ pc' = [pc EXCEPT ![p] = "email"]
    /\ UNCHANGED <<env, today, acked, table, passes, idx, response, error, events, emailLog,
                   puts, gets, handledSince>>

\* lines 163-164 and 184: send_email_alert for the row's event, then the
\* next row
SendEmail(p) ==
    /\ pc[p] = "email"
    /\ \E r \in EmailResults :
        /\ emailLog' = [emailLog EXCEPT ![p] =
                           Append(@, [row |-> idx[p],
                                      kind |-> events[p][Len(events[p])].event.kind])]
        /\ lastSend' = [lastSend EXCEPT ![p].email = r]
    /\ pc' = [pc EXCEPT ![p] = "row"]
    /\ idx' = [idx EXCEPT ![p] = @ + 1]
    /\ UNCHANGED <<env, today, acked, table, passes, response, error, events, chatLog,
                   puts, gets, handledSince>>

\* lines 188-189: every row was processed
Finish(p) ==
    /\ pc[p] = "row"
    /\ idx[p] > NumRows
    /\ pc' = [pc EXCEPT ![p] = "returned"]
    /\ UNCHANGED <<env, today, acked, table, passes, idx, response, error, events, chatLog,
                   emailLog, lastSend, puts, gets, handledSince>>

\* variant: the handler reports success after the critical alert
Except_ReturnsSuccess(p) ==
    /\ pc[p] = "except"
    /\ \E r \in ChatResults :
        /\ chatLog' = [chatLog EXCEPT ![p] =
                          Append(@, [row |-> 0, kind |-> "Critical"])]
        /\ lastSend' = [lastSend EXCEPT ![p] = [chat |-> r, email |-> ""]]
    /\ pc' = [pc EXCEPT ![p] = "returned"]
    /\ UNCHANGED <<env, today, acked, table, passes, idx, response, error, events, emailLog,
                   puts, gets, handledSince>>

\* lines 191-195: the critical alert to the operator, then raise
Except(p) ==
    /\ pc[p] = "except"
    /\ \E r \in ChatResults :
        /\ chatLog' = [chatLog EXCEPT ![p] =
                          Append(@, [row |-> 0, kind |-> "Critical"])]
        /\ lastSend' = [lastSend EXCEPT ![p] = [chat |-> r, email |-> ""]]
    /\ pc' = [pc EXCEPT ![p] = "raised"]
    /\ UNCHANGED <<env, today, acked, table, passes, idx, response, error, events, emailLog,
                   puts, gets, handledSince>>

(***************************************************************************)
(* The acknowledging actor: writes Handled for an ItemID of the sheet      *)
(***************************************************************************)
MarkHandled(item_id) ==
    /\ item_id \in SheetItemIds
    /\ GetItem(table, item_id).Status # "Handled"
    /\ table' = PutItem(table, item_id, "Handled")
    /\ acked' = acked \cup {item_id}
    /\ UNCHANGED <<env, today, passes, pc, idx, response, error, events, chatLog,
                   emailLog, lastSend, puts, gets, handledSince>>

\* the actor acknowledges an item between two passes
MarkHandledBetweenPasses ==
    /\ \A q \in Slots : ~Running(q)
    /\ passes < MaxPasses
    /\ \E item_id \in SheetItemIds : MarkHandled(item_id)

(***************************************************************************)
(* Specifications                                                          *)
(***************************************************************************)
\* a step of invocation p between its start and its end
HandlerStep(p) ==
    \/ GetClient(p)
    \/ GetClientFails(p)
    \/ FetchSheet(p)
    \/ FetchSheetFails(p)
    \/ RowGet(p)
    \/ GetItemFails(p)
    \/ RowRegisterEvaluate(p)
    \/ PutItemFails(p)
    \/ SendChat(p)
    \/ SendEmail(p)
    \/ Finish(p)
    \/ Except(p)

\* passes one after the other, acknowledgments between them
Next ==
    \/ \E p \in {1} : StartAlone(p) \/ HandlerStep(p)
    \/ MarkHandledBetweenPasses

Spec == Init /\ [][Next]_vars

\* overlapping invocations, no other writer to the table
NextOverlap == \E p \in Slots : StartOverlap(p) \/ HandlerStep(p)

SpecOverlap == InitOverlap /\ [][NextOverlap]_vars

\* overlapping invocations, acknowledgments at any moment
NextOverlapActor ==
    \/ \E p \in Slots : StartOverlap(p) \/ HandlerStep(p)
    \/ \E item_id \in SheetItemIds : MarkHandled(item_id)

SpecOverlapActor == InitOverlap /\ [][NextOverlapActor]_vars

(***************************************************************************)
(* Vocabulary of the properties                                            *)
(***************************************************************************)
HM == HeaderMap(Headers)

RowsOf(log, i) == {k \in 1..Len(log) : log[k].row = i}

EventsOf(p, i, kind) ==
    {k \in 1..Len(events[p]) :
        events[p][k].row = i /\ events[p][k].event.kind = kind}

\* the errors of the status table's own calls
TableErrors == {"get_item", "put_item"}

\* invocation p has carried row i through lines 148-186 (the sends may still
\* be pending): its get found the item not Handled, the registration did not
\* raise, and the evaluation is done
Evaluated(p, i) ==
    /\ \E k \in RowsOf(gets[p], i) : gets[p][k].Status # "Handled"
    /\ \/ idx[p] > i
       \/ idx[p] = i /\ pc[p] \in {"chat", "email"}
       \/ idx[p] = i /\ pc[p] \in {"except", "raised"} /\ error[p] = "ValueError"

\* invocation p is done with row i altogether
Passed(p, i) == idx[p] > i /\ pc[p] \in {"row", "register", "chat", "email",
                                         "except", "returned", "raised"}

RowDue(i) == ParseDate(Cell(DataRow(i), HM, "DueDate", <<>>))

\* days_until_due of row i in invocation p
RowDays(p, i) == DaysBetween(RowDue(i).date, today[p])

RowAdvance(i) == Cell(DataRow(i), HM, "AdvanceDays", <<>>)

(***************************************************************************)
(* C1: an ItemID that was Handled when a pass began and has stayed Handled *)
(* since gets no notification event, no chat message and no email from     *)
(* that pass, on the first run and on every later run over the same sheet, *)
(* whatever its due date and advance days are.                             *)
(***************************************************************************)
C1_HandledNeverNotified ==
    LET hm == HM IN
    \A p \in Slots : \A i \in 1..NumRows :
        (handledSince[p] # {} /\ RowItemId(DataRow(i), hm) \in handledSince[p]) =>
            /\ EventsOf(p, i, "Overdue") = {}
            /\ EventsOf(p, i, "DueSoon") = {}
            /\ RowsOf(chatLog[p], i) = {}
            /\ RowsOf(emailLog[p], i) = {}

\* a second pass has returned over a row that is overdue or due soon and
\* whose ItemID the actor marked Handled after the first pass
C1_Witness ==
    /\ passes = 2
    /\ pc[1] = "returned"
    /\ \E i \in 1..NumRows :
        /\ RowItemId(DataRow(i), HM) \in handledSince[1] \cap acked
        /\ RowItemId(DataRow(i), HM) \notin HandledIds(table0)
        /\ EvaluateRow(DataRow(i), HM, today[1]).outcome \in {"Overdue", "DueSoon"}

(***************************************************************************)
(* C2: a row that reaches the due-date evaluation with a date that parses  *)
(* and lies before today has exactly one Overdue event, carrying the       *)
(* number of days overdue, and no DueSoon event, whatever its advance-days *)
(* cell holds.                                                             *)
(***************************************************************************)
C2_OverdueExactlyOnce ==
    \A p \in Slots : \A i \in 1..NumRows :
        LET due == RowDue(i)
            days_until_due == DaysBetween(due.date, today[p])
        IN  (Evaluated(p, i) /\ due.ok /\ days_until_due < 0) =>
                /\ Cardinality(EventsOf(p, i, "Overdue")) = 1
                /\ \A k \in EventsOf(p, i, "Overdue") :
                      events[p][k].event.days = 0 - days_until_due
                /\ EventsOf(p, i, "DueSoon") = {}

\* a pass returned after an overdue row whose advance-days cell does not parse
C2_Witness ==
    \E p \in Slots : \E i \in 1..NumRows :
        /\ pc[p] = "returned"
        /\ Evaluated(p, i) /\ RowDue(i).ok /\ RowDays(p, i) < 0
        /\ ~AdvanceDaysList(RowAdvance(i)).ok
        /\ EventsOf(p, i, "Overdue") # {}

(***************************************************************************)
(* C4: within a pass the table is written only by first-seen registration. *)
(* Every put is one write of Active for the ItemID of a row whose name and *)
(* date are non-empty and whose get found no record; every such row, once  *)
(* past line 146, has exactly one put, whether its date parses or not and  *)
(* whether an event follows or not; a put_item that raises is the put of   *)
(* such a row and writes nothing; a skipped or Handled row has none; and   *)
(* while a pass runs the table changes only by inserting such a record.    *)
(***************************************************************************)
C4_PutsState ==
    \A p \in Slots :
        /\ \A k \in 1..Len(puts[p]) :
              LET i == puts[p][k].row IN
              /\ i \in 1..NumRows
              /\ puts[p][k].ItemID # <<>>
              /\ puts[p][k].ItemID = RowItemId(DataRow(i), HM)
              /\ puts[p][k].Status = "Active"
              /\ \E g \in RowsOf(gets[p], i) : ~gets[p][g].found
        /\ \A i \in 1..NumRows :
              /\ Cardinality(RowsOf(puts[p], i)) <= 1
              /\ Cardinality(RowsOf(gets[p], i)) <= 1
              /\ RowsOf(gets[p], i) # {} => RowItemId(DataRow(i), HM) # <<>>
              /\ (Evaluated(p, i) \/ Passed(p, i)) =>
                    (RowsOf(puts[p], i) # {} <=>
                        \E g \in RowsOf(gets[p], i) : ~gets[p][g].found)
              /\ (idx[p] = i /\ error[p] = "put_item") =>
                    /\ RowsOf(puts[p], i) = {}
                    /\ \E g \in RowsOf(gets[p], i) : ~gets[p][g].found

C4_PutsStep ==
    (\E p \in Slots : Running(p)) /\ table' # table =>
        \E p \in Slots :
            /\ Len(puts'[p]) = Len(puts[p]) + 1
            /\ LET put == puts'[p][Len(puts'[p])] IN
               /\ put.ItemID \notin DOMAIN table
               /\ table' = [k \in DOMAIN table \cup {put.ItemID} |->
                               IF k = put.ItemID THEN "Active" ELSE table[k]]

\* C4: the table is written only by first-seen registration, in every state
\* and at every step
C4_OnlyFirstSeenRegistration == [](C4_PutsState) /\ [][C4_PutsStep]_vars

\* a pass returned having registered a row whose date does not parse, having
\* skipped a row, and having left an existing record alone
C4_Witness ==
    \E p \in Slots :
        /\ pc[p] = "returned"
        /\ \E i \in 1..NumRows : RowsOf(puts[p], i) # {} /\ ~RowDue(i).ok
        /\ \E i \in 1..NumRows : RowsOf(gets[p], i) = {}

(***************************************************************************)
(* C3: a row that reaches the due-date evaluation with a date that parses  *)
(* and is today or later has a DueSoon event if and only if the number of  *)
(* days left is among the integers of its advance-days cell, entries that  *)
(* are empty or not integers contributing nothing.                         *)
(***************************************************************************)
\* the integers of a comma-separated cell, each entry trimmed, other entries
\* contributing nothing
AdvanceDaysSet(advance_days_str) ==
    LET fields == Split(advance_days_str, ",")
    IN  {ParseInt(Strip(fields[k])).val :
            k \in {j \in 1..Len(fields) : ParseInt(Strip(fields[j])).ok}}

\* C3: a DueSoon event exists iff the days left are among the integers of the
\* advance-days cell
C3_DueSoonIffMember ==
    \A p \in Slots : \A i \in 1..NumRows :
        (Evaluated(p, i) /\ RowDue(i).ok /\ RowDays(p, i) >= 0) =>
            /\ EventsOf(p, i, "DueSoon") # {} <=>
                  RowDays(p, i) \in AdvanceDaysSet(RowAdvance(i))
            /\ EventsOf(p, i, "Overdue") = {}

(***************************************************************************)
(* C5: an advance-days entry that is not an integer never aborts the pass: *)
(* unless a call of the status table raised, no invocation stands in, or   *)
(* has left through, the error handler while at a row whose advance-days   *)
(* cell holds such an entry.                                               *)
(***************************************************************************)
HasMalformedEntry(advance_days_str) ==
    LET fields == Split(advance_days_str, ",")
    IN  \E k \in 1..Len(fields) :
            Strip(fields[k]) # <<>> /\ ~ParseInt(Strip(fields[k])).ok

\* C5: no invocation is in the error handler at a row with a malformed
\* advance-days entry, table failures apart
C5_MalformedAdvanceNeverAborts ==
    \A p \in Slots : \A i \in 1..NumRows :
        (idx[p] = i /\ HasMalformedEntry(RowAdvance(i))
            /\ error[p] \notin TableErrors) =>
            /\ pc[p] \notin {"except", "raised"}
            /\ error[p] = ""

(***************************************************************************)
(* C6: a row whose due date does not parse is isolated. It never has an    *)
(* event, a chat message or an email, the pass never stands in the error   *)
(* handler at it unless a call of the status table raised, and the step    *)
(* that evaluates it only moves the pass on to the next row: no error, no  *)
(* event, no send, and the table changed at most by the registration of    *)
(* that row's own ItemID.                                                  *)
(***************************************************************************)
\* invocation p has not notified row i and is not in the error handler at it
\* for a reason of the row's own
Untouched(p, i) ==
    /\ EventsOf(p, i, "Overdue") = {}
    /\ EventsOf(p, i, "DueSoon") = {}
    /\ RowsOf(chatLog[p], i) = {}
    /\ RowsOf(emailLog[p], i) = {}
    /\ ~(idx[p] = i /\ pc[p] \in {"chat", "email"})
    /\ ~(idx[p] = i /\ pc[p] \in {"except", "raised"}
            /\ error[p] \notin TableErrors)

C6_BadDateState ==
    \A i \in 1..NumRows :
        (\E p \in Slots : ~Untouched(p, i)) => RowDue(i).ok

C6_BadDateStep ==
    \A p \in Slots :
        (pc[p] = "register" /\ pc'[p] # "register" /\ ~RowDue(idx[p]).ok
            /\ error'[p] \notin TableErrors) =>
            /\ pc'[p] = "row"
            /\ idx'[p] = idx[p] + 1
            /\ error'[p] = ""
            /\ events' = events
            /\ chatLog' = chatLog
            /\ emailLog' = emailLog
            /\ \/ table' = table
               \/ LET item_id == RowItemId(DataRow(idx[p]), HM) IN
                  /\ item_id \notin DOMAIN table
                  /\ table' = [k \in DOMAIN table \cup {item_id} |->
                                  IF k = item_id THEN "Active" ELSE table[k]]

\* C6: a row whose due date does not parse is isolated, in every state and at
\* every step
C6_BadDateIsolated == [](C6_BadDateState) /\ [][C6_BadDateStep]_vars

\* a pass returned success with an event for a row that follows a row whose
\* date does not parse
C6_Witness ==
    \E p \in Slots : \E i, j \in 1..NumRows :
        /\ pc[p] = "returned"
        /\ i < j
        /\ Cell(DataRow(i), HM, "DueDate", <<>>) # <<>>
        /\ RowsOf(gets[p], i) # {}
        /\ ~RowDue(i).ok
        /\ EventsOf(p, j, "Overdue") \cup EventsOf(p, j, "DueSoon") # {}

(***************************************************************************)
(* C7: an invocation ends in one of two ways. It returns success only with *)
(* no error caught and every row processed; it raises only after an error  *)
(* was caught and one critical alert was handed to the chat channel as its *)
(* last message; a caught error never leads to success; and a running     *)
(* invocation always has a next step.                                      *)
(***************************************************************************)
\* the guard of one of the handler's steps holds
HasNextStep(p) ==
    \/ pc[p] \in {"auth", "fetch", "except"}
    \/ pc[p] = "row" /\ idx[p] \in 1..(NumRows + 1)
    \/ pc[p] = "register" /\ idx[p] \in 1..NumRows
    \/ pc[p] \in {"chat", "email"} /\ idx[p] \in 1..NumRows /\ events[p] # <<>>

\* C7: success only without error and with every row processed; failure only
\* after the critical alert
C7_SuccessOrAlertedFailure ==
    \A p \in Slots :
        /\ pc[p] = "returned" =>
              /\ error[p] = ""
              /\ sheet # <<>>
              /\ idx[p] = NumRows + 1
              /\ \A i \in 1..NumRows :
                    RowItemId(DataRow(i), HM) # <<>> => RowsOf(gets[p], i) # {}
              /\ RowsOf(chatLog[p], 0) = {}
        /\ pc[p] = "raised" =>
              /\ error[p] # ""
              /\ Cardinality(RowsOf(chatLog[p], 0)) = 1
              /\ chatLog[p][Len(chatLog[p])].kind = "Critical"
        /\ error[p] # "" => pc[p] \in {"except", "raised"}
        /\ Running(p) => HasNextStep(p)

\* the spreadsheet fetch failed, the critical alert itself failed to be
\* delivered, and the invocation raised
C7_Witness ==
    \E p \in Slots :
        /\ pc[p] = "raised"
        /\ error[p] = "sheet"
        /\ lastSend[p].chat = "failed"

(***************************************************************************)
(* C8: a failed send is neither fatal nor retried. No row has more than    *)
(* one chat call or more than one email call; after a failed chat send for *)
(* a row's event the pass goes on to the email send of that event; after a *)
(* failed send on either channel no error is caught and the pass stands at *)
(* the next row, which it can evaluate, or has returned success.           *)
(***************************************************************************)
C8_FailedSendNotFatal ==
    \A p \in Slots :
        /\ \A i \in 1..NumRows :
              /\ Cardinality(RowsOf(chatLog[p], i)) <= 1
              /\ Cardinality(RowsOf(emailLog[p], i)) <= 1
        /\ (lastSend[p].chat = "failed"
              /\ chatLog[p][Len(chatLog[p])].kind # "Critical") =>
              LET i == chatLog[p][Len(chatLog[p])].row IN
              /\ error[p] = ""
              /\ pc[p] \in {"email", "row", "returned"}
              /\ pc[p] = "email" => idx[p] = i /\ ENABLED SendEmail(p)
              /\ pc[p] # "email" => idx[p] = i + 1 /\ RowsOf(emailLog[p], i) # {}
        /\ lastSend[p].email = "failed" =>
              /\ error[p] = ""
              /\ pc[p] \in {"row", "returned"}
              /\ idx[p] = emailLog[p][Len(emailLog[p])].row + 1
              /\ pc[p] = "row" => ENABLED (RowGet(p) \/ Finish(p))

\* both sends of a row's event failed and the pass stands at a later row
C8_Witness ==
    \E p \in Slots :
        /\ pc[p] = "row"
        /\ idx[p] <= NumRows
        /\ lastSend[p] = [chat |-> "failed", email |-> "failed"]

(***************************************************************************)
(* C9: overlapping invocations over the same sheet, with no other writer:  *)
(* no record that was in the table is changed, every record added is the   *)
(* Active record of a first-seen ItemID of the sheet, and once an          *)
(* invocation has returned the table is the one a single invocation        *)
(* leaves: the old records plus an Active record for each first-seen       *)
(* ItemID.                                                                 *)
(***************************************************************************)
FirstSeenIds == SheetItemIds \ DOMAIN table0

SingleInvocationTable ==
    [k \in DOMAIN table0 \cup FirstSeenIds |->
        IF k \in DOMAIN table0 THEN table0[k] ELSE "Active"]

\* C9: without another writer, overlapping invocations leave the table a
\* single invocation leaves
C9_DuplicateInsertsBenign ==
    acked = {} =>
        /\ \A k \in DOMAIN table0 : k \in DOMAIN table /\ table[k] = table0[k]
        /\ \A k \in DOMAIN table \ DOMAIN table0 :
              k \in FirstSeenIds /\ table[k] = "Active"
        /\ (\E p \in Slots : pc[p] = "returned") => table = SingleInvocationTable
        /\ \A p \in Slots : \A k \in 1..Len(puts[p]) :
              puts[p][k].ItemID \in FirstSeenIds /\ puts[p][k].Status = "Active"

\* both invocations have returned, both inserted the same row's record and
\* both notified the same row
C9_Witness ==
    /\ acked = {}
    /\ pc[1] = "returned" /\ pc[2] = "returned"
    /\ \E i \in 1..NumRows :
        /\ RowsOf(puts[1], i) # {} /\ RowsOf(puts[2], i) # {}
        /\ EventsOf(1, i, "DueSoon") # {} /\ EventsOf(2, i, "DueSoon") # {}

(***************************************************************************)
(* C10: with the acknowledging actor writing at any moment, a record the   *)
(* actor has set to Handled, or that was Handled from the start, is        *)
(* Handled whenever no invocation is running.                              *)
(***************************************************************************)
C10_HandledNeverReverted ==
    (\A p \in Slots : ~Running(p)) =>
        \A item_id \in acked \cup HandledIds(table0) :
            GetItem(table, item_id).Status = "Handled"
====
